---- MODULE Spec2Model ----
(***************************************************************************)
(* Semesterappen (src/app.py): the session state of the Streamlit script   *)
(* and the handlers that change it.  One action is one user interaction    *)
(* together with the script rerun it triggers.                             *)
(*                                                                         *)
(* Dates are day ordinals counted from START_DATE (2026-01-01 = 0).  The   *)
(* string form of a date ("2026-04-17", what str(d) yields) is the triple  *)
(* <<2026, 4, 17>>; the scenario store keeps dates in string form, the     *)
(* data_store working frames keep them as dates, as in the source.         *)
(*                                                                         *)
(* The program's range is START_DATE..END_DATE (653 days).  The model      *)
(* generates the records of a window of that range, WindowStart ..         *)
(* WindowStart + WindowDays - 1, chosen so that it holds a Friday workday  *)
(* of an even ISO week (2026-04-17, week 16), a public holiday on a Friday *)
(* of an even ISO week (2026-05-01, week 18), weekends, and two months.    *)
(* Non-ASCII letters of the source's strings are transliterated.           *)
(***************************************************************************)
EXTENDS Integers, Sequences, FiniteSets, TLC

VARIABLES
    scenarios,        \* st.session_state["scenarios"]: name -> list of records
    data_store,       \* st.session_state["data_store"]: name -> working frame
    current_scenario, \* st.session_state["current_scenario"]
    budget_days,      \* st.session_state["budget_days"]
    block_fridays,    \* the checkbox "Visa sparr varannan fredag"
    drive_db,         \* the files named DB_FILENAME in the Drive folder: <<>> or <<text>>
    drive_settings,   \* the files named SETTINGS_FILENAME there: <<>> or <<text>>
    history           \* the interactions so far, each with its inputs and outcome

vars == <<scenarios, data_store, current_scenario, budget_days, block_fridays,
          drive_db, drive_settings, history>>

----------------------------------------------------------------------------
(* Bounds of the model *)

WindowDays == 15
MaxOps == 2
MaxEditRow == 2

----------------------------------------------------------------------------
(* Program constants *)

START_DATE == 0
END_DATE == 652
TOTAL_BUDGET == 108

\* _drive_status(): the sessions modelled have Drive sync configured (without it
\* save_all_changes returns at once and no handler reaches Drive)
drive_enabled == TRUE

----------------------------------------------------------------------------
(* datetime: the calendar of 2026 and 2027 (neither is a leap year) *)

MonthLengths == <<31, 28, 31, 30, 31, 30, 31, 31, 30, 31, 30, 31>>

RECURSIVE SumLengths(_)
SumLengths(m) == IF m <= 1 THEN 0 ELSE SumLengths(m - 1) + MonthLengths[m - 1]

\* the days of the year before the first of month m
CumDays == [m \in 1..12 |-> SumLengths(m)]
DaysBefore(m) == CumDays[m]

Ordinal(y, m, d) == START_DATE + (y - 2026) * 365 + DaysBefore(m) + (d - 1)

YearOf(n) == 2026 + (n \div 365)

MonthOf(n) ==
    LET doy == n % 365
    IN  CHOOSE m \in 1..12 : DaysBefore(m) <= doy /\ doy < DaysBefore(m) + MonthLengths[m]

DayOf(n) == (n % 365) - DaysBefore(MonthOf(n)) + 1

\* date.weekday(): Monday = 0 ... Sunday = 6; 2026-01-01 is a Thursday
weekday(n) == (n + 3) % 7

\* date.isocalendar()[1]: ISO year 2026 has 53 weeks, week 1 starts 2025-12-29
isoweek(n) ==
    LET w == ((n + 3) \div 7) + 1
    IN  IF w > 53 THEN w - 53 ELSE w

\* str(d) and pd.to_datetime(s).dt.date
DateStr(n) == <<YearOf(n), MonthOf(n), DayOf(n)>>
ParseDate(s) == Ordinal(s[1], s[2], s[3])

WindowStart == Ordinal(2026, 4, 17)
WindowEnd == IF WindowStart + WindowDays - 1 > END_DATE
             THEN END_DATE ELSE WindowStart + WindowDays - 1

----------------------------------------------------------------------------
(* VacationEngine *)

\* holidays.country_holidays("SE", years=[2026, 2027]) on the window
se_holidays == (Ordinal(2026, 5, 1) :> "Forsta maj")

\* is_holiday that takes Saturday for a working day
is_holiday_SundayOnly(n) == n \in DOMAIN se_holidays \/ weekday(n) >= 6

is_holiday(n) == n \in DOMAIN se_holidays \/ weekday(n) >= 5

all_dates == [i \in 1..(WindowEnd - WindowStart + 1) |-> WindowStart + i - 1]

InitialRecord(d) ==
    [Datum       |-> DateStr(d),
     Vecka       |-> isoweek(d),
     Typ         |-> IF is_holiday(d) THEN "Ledig (Helg/Rod)" ELSE "Arbetsdag",
     Beskrivning |-> IF is_holiday(d) /\ d \in DOMAIN se_holidays
                     THEN se_holidays[d] ELSE "",
     Semester    |-> FALSE,
     Halvdag     |-> FALSE,
     ExtraLedig  |-> FALSE,
     Sjuk        |-> FALSE]

get_initial_data == [i \in DOMAIN all_dates |-> InitialRecord(all_dates[i])]

----------------------------------------------------------------------------
(* Helpers over frames (a frame is a sequence of rows, row i at index i-1) *)

RECURSIVE Ascending(_)
Ascending(S) ==
    IF S = {} THEN <<>>
    ELSE LET lo == CHOOSE x \in S : \A y \in S : x <= y
         IN  <<lo>> \o Ascending(S \ {lo})

\* pd.DataFrame(current_records) with Datum parsed to dates
ToFrame(records) ==
    [i \in DOMAIN records |-> [records[i] EXCEPT !.Datum = ParseDate(@)]]

\* save_df["Datum"].astype(str); save_df.to_dict("records")
ToRecords(frame) ==
    [i \in DOMAIN frame |-> [frame[i] EXCEPT !.Datum = DateStr(@)]]

WorkTypes == {"Arbetsdag", "Sparrad (Jobb)"}

----------------------------------------------------------------------------
(* The script body that every rerun executes *)

\* if scenario_key not in data_store: data_store[scenario_key] = df_init
InitDataStore(ds, scen, key) ==
    IF key \in DOMAIN ds THEN ds ELSE ds @@ (key :> ToFrame(scen[key]))

EvenFriday(x) == weekday(x) = 4 /\ isoweek(x) % 2 = 0

\* df.loc[mask, "Typ"] = "Sparrad (Jobb)", in place on the working frame
OverlayFrame(df) ==
    [i \in DOMAIN df |->
        IF EvenFriday(df[i].Datum) THEN [df[i] EXCEPT !.Typ = "Sparrad (Jobb)"]
        ELSE df[i]]

\* df_init["Datum"]: the frame of the records has a column "Datum"
HasDatum(records) == \E i \in DOMAIN records : "Datum" \in DOMAIN records[i]

\* the data_store after the run; a run that has to build the frame of records
\* without "Datum" raises KeyError and leaves the data_store as it is
RunScript(ds, scen, key, flag) ==
    IF key \notin DOMAIN ds /\ ~HasDatum(scen[key]) THEN ds
    ELSE LET ds1 == InitDataStore(ds, scen, key)
         IN  IF flag THEN [ds1 EXCEPT ![key] = OverlayFrame(@)] ELSE ds1

----------------------------------------------------------------------------
(* _apply_month_edits *)

\* for col, val in changes.items(): month_df.at[row_idx, col] = val
ApplyChanges(row, changes) ==
    LET Get(c) == IF c \in DOMAIN changes THEN changes[c] ELSE row[c]
    IN  [Datum       |-> Get("Datum"),
         Vecka       |-> Get("Vecka"),
         Typ         |-> Get("Typ"),
         Beskrivning |-> Get("Beskrivning"),
         Semester    |-> Get("Semester"),
         Halvdag     |-> Get("Halvdag"),
         ExtraLedig  |-> Get("ExtraLedig"),
         Sjuk        |-> Get("Sjuk")]

EditedRows(month_df, edited_rows) ==
    [i \in DOMAIN month_df |->
        IF (i - 1) \in DOMAIN edited_rows
        THEN ApplyChanges(month_df[i], edited_rows[i - 1])
        ELSE month_df[i]]

\* month_df.drop(index=deleted_rows).reset_index(drop=True)
DropRows(month_df, deleted_rows) ==
    LET keep == Ascending({i \in DOMAIN month_df : (i - 1) \notin deleted_rows})
    IN  [j \in DOMAIN keep |-> month_df[keep[j]]]

\* NormalizeRow without "ExtraLedig clears Semester"
NormalizeRow_NoExtraRule(r) ==
    LET r2 == IF r.Sjuk       THEN [r  EXCEPT !.Semester   = FALSE] ELSE r
        r3 == IF r2.Halvdag   THEN [r2 EXCEPT !.Semester   = FALSE] ELSE r2
        r4 == IF r3.Halvdag   THEN [r3 EXCEPT !.ExtraLedig = FALSE] ELSE r3
        r5 == IF r4.Halvdag   THEN [r4 EXCEPT !.Sjuk       = FALSE] ELSE r4
        r6 == IF r5.Semester  THEN [r5 EXCEPT !.Halvdag    = FALSE] ELSE r5
    IN  r6

\* NormalizeRow without "Sjuk clears Semester"
NormalizeRow_NoSickRule(r) ==
    LET r1 == IF r.ExtraLedig THEN [r  EXCEPT !.Semester   = FALSE] ELSE r
        r3 == IF r1.Halvdag   THEN [r1 EXCEPT !.Semester   = FALSE] ELSE r1
        r4 == IF r3.Halvdag   THEN [r3 EXCEPT !.ExtraLedig = FALSE] ELSE r3
        r5 == IF r4.Halvdag   THEN [r4 EXCEPT !.Sjuk       = FALSE] ELSE r4
        r6 == IF r5.Semester  THEN [r5 EXCEPT !.Halvdag    = FALSE] ELSE r5
    IN  r6

\* the six masked assignments that follow the edits, in source order
NormalizeRow(r) ==
    LET r1 == IF r.ExtraLedig THEN [r  EXCEPT !.Semester   = FALSE] ELSE r
        r2 == IF r1.Sjuk      THEN [r1 EXCEPT !.Semester   = FALSE] ELSE r1
        r3 == IF r2.Halvdag   THEN [r2 EXCEPT !.Semester   = FALSE] ELSE r2
        r4 == IF r3.Halvdag   THEN [r3 EXCEPT !.ExtraLedig = FALSE] ELSE r3
        r5 == IF r4.Halvdag   THEN [r4 EXCEPT !.Sjuk       = FALSE] ELSE r4
        r6 == IF r5.Semester  THEN [r5 EXCEPT !.Halvdag    = FALSE] ELSE r5
    IN  r6

\* mask = updated["Datum"].apply(lambda d: d.year == year and d.month == month)
MonthMask(frame, year, month) ==
    {i \in DOMAIN frame : YearOf(frame[i].Datum) = year /\ MonthOf(frame[i].Datum) = month}

\* WriteBack that also writes the Datum and Vecka columns of the edited rows
WriteBack_WithDatum(updated, pos, month_df, single) ==
    [i \in DOMAIN updated |->
        IF \E j \in DOMAIN pos : pos[j] = i
        THEN LET j == CHOOSE k \in DOMAIN pos : pos[k] = i
                 src == IF single THEN month_df[1] ELSE month_df[j]
             IN  [updated[i] EXCEPT !.Datum       = src.Datum,
                                    !.Vecka       = src.Vecka,
                                    !.Semester    = src.Semester,
                                    !.ExtraLedig  = src.ExtraLedig,
                                    !.Sjuk        = src.Sjuk,
                                    !.Beskrivning = src.Beskrivning,
                                    !.Halvdag     = src.Halvdag]
        ELSE updated[i]]

\* updated.loc[mask, [...]] = month_df[[...]].values: by position, not by date
WriteBack(updated, pos, month_df, single) ==
    [i \in DOMAIN updated |->
        IF \E j \in DOMAIN pos : pos[j] = i
        THEN LET j == CHOOSE k \in DOMAIN pos : pos[k] = i
                 src == IF single THEN month_df[1] ELSE month_df[j]
             IN  [updated[i] EXCEPT !.Semester    = src.Semester,
                                    !.ExtraLedig  = src.ExtraLedig,
                                    !.Sjuk        = src.Sjuk,
                                    !.Beskrivning = src.Beskrivning,
                                    !.Halvdag     = src.Halvdag]
        ELSE updated[i]]

\* The merged frame, or the exception the handler dies of before it syncs.
\* broadcast: whether the pandas build broadcasts a one-row value over a longer
\* selection instead of raising.
ApplyMonthEdits(frame, edited, year, month, broadcast) ==
    LET pos      == Ascending(MonthMask(frame, year, month))
        month_df == [j \in DOMAIN pos |-> frame[pos[j]]]
        same     == [outcome |-> "return", updated |-> frame]
    IN  IF edited.kind = "dict" THEN
            LET e1 == EditedRows(month_df, edited.edited_rows)
                e2 == e1 \o edited.added_rows
            IN  IF \E i \in edited.deleted_rows : i + 1 \notin DOMAIN e2
                THEN [outcome |-> "KeyError", updated |-> frame]
                ELSE LET e3 == DropRows(e2, edited.deleted_rows)
                         e4 == [j \in DOMAIN e3 |-> NormalizeRow(e3[j])]
                     IN  IF Len(e4) = Len(pos)
                         THEN [outcome |-> "ok",
                               updated |-> WriteBack(frame, pos, e4, FALSE)]
                         ELSE IF Len(e4) = 1 /\ broadcast
                         THEN [outcome |-> "ok",
                               updated |-> WriteBack(frame, pos, e4, TRUE)]
                         ELSE [outcome |-> "ValueError", updated |-> frame]
        ELSE IF edited.kind = "frame" THEN
            IF Len(edited.frame) = 0 THEN same
            ELSE LET e4 == [j \in DOMAIN edited.frame |-> NormalizeRow(edited.frame[j])]
                 IN  IF Len(e4) = Len(pos)
                     THEN [outcome |-> "ok",
                           updated |-> WriteBack(frame, pos, e4, FALSE)]
                     ELSE IF Len(e4) = 1 /\ broadcast
                     THEN [outcome |-> "ok",
                           updated |-> WriteBack(frame, pos, e4, TRUE)]
                     ELSE [outcome |-> "ValueError", updated |-> frame]
        ELSE same

----------------------------------------------------------------------------
(* The "Applicera period" button *)

ApplyPeriodRow(r, start_date, end_date, period_action) ==
    LET inside  == r.Datum >= start_date /\ r.Datum <= end_date
        workday == r.Typ \in WorkTypes
        r1 == IF period_action = "Markera semester"
              THEN LET a == IF inside /\ workday /\ ~r.ExtraLedig /\ ~r.Sjuk
                            THEN [r EXCEPT !.Semester = TRUE] ELSE r
                   IN  IF inside /\ workday THEN [a EXCEPT !.Halvdag = FALSE] ELSE a
              ELSE IF inside /\ workday THEN [r EXCEPT !.Semester = FALSE] ELSE r
        r2 == IF inside /\ r1.ExtraLedig THEN [r1 EXCEPT !.Semester = FALSE] ELSE r1
        r3 == IF inside /\ r2.Sjuk THEN [r2 EXCEPT !.Semester = FALSE] ELSE r2
    IN  r3

ApplyPeriodFrame(df, start_date, end_date, period_action) ==
    [i \in DOMAIN df |-> ApplyPeriodRow(df[i], start_date, end_date, period_action)]

----------------------------------------------------------------------------
(* Budget statistics ("Statistik & Graf", and _summarize_plan)                *)
(* count and rem are floats in the source, whole and half days; here they   *)
(* are counted in half days: count 3 is 1.5 days.                           *)

budget_statistics(frame, budget) ==
    LET full_mask == {i \in DOMAIN frame : frame[i].Semester /\ frame[i].Typ \in WorkTypes}
        half_mask == {i \in DOMAIN frame : frame[i].Halvdag /\ frame[i].Typ \in WorkTypes}
        count     == 2 * Cardinality(full_mask) + Cardinality(half_mask)
    IN  [count |-> count, rem |-> 2 * budget - count]

----------------------------------------------------------------------------
(* Scenario store and persistence *)

\* create_new_scenario that starts the new scenario on generated records
create_new_scenario_Generated(scen, cur, name) ==
    IF name \in DOMAIN scen THEN [scen EXCEPT ![name] = get_initial_data]
    ELSE scen @@ (name :> get_initial_data)

\* st.session_state["scenarios"][name] = [row.copy() for row in current_data]
create_new_scenario(scen, cur, name) ==
    IF name \in DOMAIN scen THEN [scen EXCEPT ![name] = scen[cur]]
    ELSE scen @@ (name :> scen[cur])

(* Python values that pass through json: a value carries its type; a dict   *)
(* maps its keys to values, a list holds its items as they are.            *)
PyDict(f) == [type |-> "dict", val |-> f]
PyList(s) == [type |-> "list", val |-> s]
PyInt(n) == [type |-> "int", val |-> n]
PyNone == [type |-> "NoneType", val |-> <<>>]

\* bool(v): an empty dict, an empty list, 0 and None are false
Truthy(v) ==
    CASE v.type = "dict" -> DOMAIN v.val # {}
      [] v.type = "list" -> Len(v.val) > 0
      [] v.type = "int"  -> v.val # 0
      [] OTHER           -> FALSE

\* st.session_state["scenarios"] as the Python dict of lists it is, and back
StoreDict(scen) == PyDict([name \in DOMAIN scen |-> PyList(scen[name])])
StoreOf(d) == [name \in DOMAIN d.val |-> d.val[name].val]

\* the payload save_all_changes hands to save_to_drive(DB_FILENAME, ...)
Payload(scen, budget) ==
    PyDict([scenarios |-> StoreDict(scen),
            settings  |-> PyDict([budget_days |-> PyInt(budget)])])

SettingsPayload(budget) == PyDict([budget_days |-> PyInt(budget)])

\* json.dumps(data_dict, indent=2): the JSON text, as the tree of its values
RECURSIVE json_dumps(_)
json_dumps(v) ==
    CASE v.type = "dict" ->
            [json |-> "object", val |-> [k \in DOMAIN v.val |-> json_dumps(v.val[k])]]
      [] v.type = "list" -> [json |-> "array", val |-> v.val]
      [] v.type = "int"  -> [json |-> "number", val |-> v.val]
      [] OTHER           -> [json |-> "null", val |-> <<>>]

\* json.loads(raw.decode("utf-8"))
RECURSIVE json_loads(_)
json_loads(j) ==
    CASE j.json = "object" -> PyDict([k \in DOMAIN j.val |-> json_loads(j.val[k])])
      [] j.json = "array"  -> PyList(j.val)
      [] j.json = "number" -> PyInt(j.val)
      [] OTHER             -> PyNone

\* save_to_drive: the files after the call, which updates files[0] or creates the
\* file, or fails and returns False
save_to_drive(files, data_dict, succeeds) ==
    IF succeeds THEN <<json_dumps(data_dict)>> ELSE files

\* the outcomes of the two save_to_drive calls of save_all_changes
SaveOutcomes == IF drive_enabled THEN BOOLEAN \X BOOLEAN ELSE {<<FALSE, FALSE>>}

\* save_all_changes: the two blobs after it
SavedDb(scen, budget, out) ==
    IF ~drive_enabled THEN drive_db
    ELSE save_to_drive(drive_db, Payload(scen, budget), out[1])

SavedSettings(budget, out) ==
    IF ~drive_enabled THEN drive_settings
    ELSE save_to_drive(drive_settings, SettingsPayload(budget), out[2])

\* save_all_changes that shows the toast whatever save_to_drive returned
save_all_changes_status_AlwaysToast(out) == "st.toast: Sparat till molnet!"

\* what a call of save_all_changes shows: st.error by each save_to_drive that
\* returned False, then the toast or the warning of save_all_changes
save_all_changes_status(out) ==
    IF out[1] /\ out[2] THEN "st.toast: Sparat till molnet!"
    ELSE IF out[1]
    THEN "st.error; st.warning: Sparade data men kunde inte spara installningar."
    ELSE IF out[2] THEN "st.error"
    ELSE "st.error; st.error"

----------------------------------------------------------------------------
(* Loading: load_from_drive, _extract_drive_payload and the block          *)
(* 'if "scenarios" not in st.session_state' of the first run of a session  *)

\* load_from_drive: None when the folder holds no such file, and None (after
\* st.error) when the listing, the download or json.loads raises
load_from_drive(files, raises) ==
    IF raises THEN PyNone
    ELSE IF Len(files) = 0 THEN PyNone
    ELSE json_loads(files[1])

\* _extract_drive_payload that does not read the settings of the payload
extract_drive_payload_NoSettings(drive_data) ==
    IF drive_data.type # "dict"
    THEN [scenarios |-> PyDict(<<>>), budget_days |-> TOTAL_BUDGET]
    ELSE IF "scenarios" \in DOMAIN drive_data.val
    THEN LET got == drive_data.val["scenarios"]
         IN  [scenarios   |-> IF Truthy(got) THEN got ELSE PyDict(<<>>),
              budget_days |-> TOTAL_BUDGET]
    ELSE [scenarios |-> drive_data, budget_days |-> TOTAL_BUDGET]

\* _extract_drive_payload: (scenarios, budget_days).  settings.get is called on
\* a dict: the blobs modelled hold a dict, or nothing, under "settings".
extract_drive_payload(drive_data) ==
    IF drive_data.type # "dict"
    THEN [scenarios |-> PyDict(<<>>), budget_days |-> TOTAL_BUDGET]
    ELSE IF "scenarios" \in DOMAIN drive_data.val
    THEN LET got      == drive_data.val["scenarios"]
             settings == IF "settings" \in DOMAIN drive_data.val
                            /\ Truthy(drive_data.val["settings"])
                         THEN drive_data.val["settings"] ELSE PyDict(<<>>)
         IN  [scenarios   |-> IF Truthy(got) THEN got ELSE PyDict(<<>>),
              budget_days |-> IF "budget_days" \in DOMAIN settings.val
                              THEN settings.val["budget_days"].val
                              ELSE TOTAL_BUDGET]
    ELSE [scenarios |-> drive_data, budget_days |-> TOTAL_BUDGET]

\* what the block stores in st.session_state["scenarios"] and ["budget_days"],
\* and the toast it shows
LoadSession(db_files, settings_files, raises) ==
    LET drive_data    == load_from_drive(db_files, raises[1])
        settings_data == load_from_drive(settings_files, raises[2])
        has_budget    == settings_data.type = "dict"
                            /\ "budget_days" \in DOMAIN settings_data.val
        draft         == StoreDict("Utkast 1" :> get_initial_data)
        ext           == extract_drive_payload(drive_data)
    IN  IF ~drive_enabled
        THEN [scenarios |-> draft, budget_days |-> TOTAL_BUDGET, toast |-> ""]
        ELSE IF Truthy(drive_data)
        THEN [scenarios   |-> IF Truthy(ext.scenarios) THEN ext.scenarios ELSE draft,
              budget_days |-> IF has_budget THEN settings_data.val["budget_days"].val
                              ELSE ext.budget_days,
              toast       |-> "Data laddad fran Drive!"]
        ELSE [scenarios   |-> draft,
              budget_days |-> IF has_budget THEN settings_data.val["budget_days"].val
                              ELSE TOTAL_BUDGET,
              toast       |-> "Ingen data pa Drive, skapade nytt utkast."]

\* st.session_state has no key "current_scenario"
Missing == "<missing>"

----------------------------------------------------------------------------
(* Inputs *)

Months == {<<YearOf(all_dates[i]), MonthOf(all_dates[i])>> : i \in DOMAIN all_dates}

Min(a, b) == IF a < b THEN a ELSE b

\* a checkbox of a row is ticked
FlagChanges ==
    { "Semester" :> TRUE, "Halvdag" :> TRUE, "ExtraLedig" :> TRUE, "Sjuk" :> TRUE }

\* the note of a row is rewritten; the date of a row is replaced by one of another month
OtherChanges == { "Beskrivning" :> "x", "Datum" :> (WindowEnd + 1) }

AddedRow ==
    [Datum |-> WindowEnd + 1, Vecka |-> isoweek(WindowEnd + 1), Typ |-> "Arbetsdag",
     Beskrivning |-> "added", Semester |-> TRUE, Halvdag |-> FALSE,
     ExtraLedig |-> FALSE, Sjuk |-> FALSE]

DictBatch(er, ar, dr) ==
    [kind |-> "dict", edited_rows |-> er, added_rows |-> ar, deleted_rows |-> dr,
     frame |-> <<>>]

\* the editor states tried on a month slice
Batches(month_df) ==
    {DictBatch(i :> ch, <<>>, {}) :
        i \in 0..(Min(Len(month_df), MaxEditRow) - 1), ch \in FlagChanges}
    \cup {DictBatch(0 :> ch, <<>>, {}) : ch \in OtherChanges}
    \cup {DictBatch(<<>>, <<AddedRow>>, {}),
          DictBatch(<<>>, <<>>, {0}),
          DictBatch(<<>>, <<AddedRow>>, {0})}
    \cup {[kind |-> "frame", edited_rows |-> <<>>, added_rows |-> <<>>,
           deleted_rows |-> {},
           frame |-> [month_df EXCEPT ![1] = [@ EXCEPT !.Semester = TRUE,
                                                       !.Halvdag = TRUE]]]}

\* the rows the editor state hands to the write-back
BatchRows(n, edited) ==
    IF edited.kind = "frame" THEN Len(edited.frame)
    ELSE n + Len(edited.added_rows) - Cardinality(edited.deleted_rows)

\* pandas either raises or broadcasts when one row is written over several
BroadcastChoices(n, edited) ==
    IF n > 1 /\ edited.kind # "none" /\ BatchRows(n, edited) = 1
    THEN BOOLEAN ELSE {FALSE}

NoneBatch ==
    [kind |-> "none", edited_rows |-> <<>>, added_rows |-> <<>>, deleted_rows |-> {},
     frame |-> <<>>]

PeriodRanges ==
    {<<WindowStart, WindowStart + 1>>, <<WindowStart, WindowEnd>>,
     <<WindowEnd, WindowStart>>}
PeriodActions == {"Markera semester", "Ta bort semesterperiod"}
NewNames == {"Plan B", "Utkast 1"}
BudgetValues == {100}

\* generated records with a day of vacation on the first date
MarkedData == [get_initial_data EXCEPT ![1] = [@ EXCEPT !.Semester = TRUE]]

\* a record that lacks its "Datum"
UndatedRecord ==
    [Vecka |-> isoweek(WindowStart), Typ |-> "Arbetsdag", Beskrivning |-> "",
     Semester |-> TRUE, Halvdag |-> FALSE, ExtraLedig |-> FALSE, Sjuk |-> FALSE]

\* what json.loads yields for the files DB_FILENAME that a session may find: the
\* envelope save_all_changes writes; the older format, a dict of scenarios, also
\* with a scenario named "scenarios"; an envelope without scenarios; JSON that
\* is no object; an envelope whose record lacks "Datum"
DriveBlobs ==
    << Payload("Utkast 1" :> MarkedData, 100),
       StoreDict(("Utkast 1" :> get_initial_data) @@ ("Plan B" :> MarkedData)),
       StoreDict("scenarios" :> MarkedData),
       PyDict([scenarios |-> PyDict(<<>>),
               settings  |-> PyDict([budget_days |-> PyInt(100)])]),
       PyList(<<1>>),
       PyList(<<>>),
       Payload("Utkast 1" :> <<UndatedRecord>>, 100) >>

\* the files named DB_FILENAME, and those named SETTINGS_FILENAME, in the folder
DbFileChoices ==
    <<  <<>>  >> \o [k \in DOMAIN DriveBlobs |-> <<json_dumps(DriveBlobs[k])>>]
SettingsFileChoices == <<  <<>>, <<json_dumps(SettingsPayload(90))>>  >>

\* whether the first, and the second, load_from_drive raises
LoadOutcomes == IF drive_enabled THEN BOOLEAN \X BOOLEAN ELSE {<<FALSE, FALSE>>}

----------------------------------------------------------------------------
(* Initial state: the first run of the script, nothing on Drive *)

Init ==
    /\ drive_db = <<>>
    /\ drive_settings = <<>>
    /\ scenarios = ("Utkast 1" :> get_initial_data)
    /\ budget_days = TOTAL_BUDGET
    /\ current_scenario = "Utkast 1"
    /\ block_fridays = TRUE
    /\ data_store = RunScript(<<>>, scenarios, current_scenario, block_fridays)
    /\ history = <<>>

Entry(op, args, outcome) == [op |-> op, args |-> args, outcome |-> outcome]

df == data_store[current_scenario]

MonthSlice(frame, ym) ==
    LET pos == Ascending(MonthMask(frame, ym[1], ym[2]))
    IN  [j \in DOMAIN pos |-> frame[pos[j]]]

----------------------------------------------------------------------------
(* Actions *)

\* the checkbox is flipped; the script reruns
ToggleBlockFridays ==
    /\ Len(history) < MaxOps
    /\ block_fridays' = ~block_fridays
    /\ data_store' = RunScript(data_store, scenarios, current_scenario, block_fridays')
    /\ history' = Append(history, Entry("ToggleBlockFridays", <<block_fridays'>>, "ok"))
    /\ UNCHANGED <<scenarios, current_scenario, budget_days, drive_db, drive_settings>>

\* MonthEdit whose sync writes the merged records to every scenario
MonthEdit_SyncEveryScenario ==
    /\ Len(history) < MaxOps
    /\ \E ym \in Months :
       \E edited \in Batches(MonthSlice(df, ym)) \cup {NoneBatch} :
       \E broadcast \in BroadcastChoices(Len(MonthSlice(df, ym)), edited) :
          LET res  == ApplyMonthEdits(df, edited, ym[1], ym[2], broadcast)
              sync == res.outcome = "ok"
              scen == IF sync
                      THEN [name \in DOMAIN scenarios |-> ToRecords(res.updated)]
                      ELSE scenarios
              ds   == IF sync
                      THEN [data_store EXCEPT ![current_scenario] = res.updated]
                      ELSE data_store
          IN  /\ scenarios' = scen
              /\ data_store' = RunScript(ds, scen, current_scenario, block_fridays)
              /\ history' = Append(history, Entry("MonthEdit", <<ym, edited>>, res.outcome))
    /\ UNCHANGED <<current_scenario, budget_days, block_fridays, drive_db,
                   drive_settings>>

\* the month editor changes: on_change=_apply_month_edits, then the script reruns
MonthEdit ==
    /\ Len(history) < MaxOps
    /\ \E ym \in Months :
       \E edited \in Batches(MonthSlice(df, ym)) \cup {NoneBatch} :
       \E broadcast \in BroadcastChoices(Len(MonthSlice(df, ym)), edited) :
          LET res  == ApplyMonthEdits(df, edited, ym[1], ym[2], broadcast)
              sync == res.outcome = "ok"
              scen == IF sync
                      THEN [scenarios EXCEPT ![current_scenario] = ToRecords(res.updated)]
                      ELSE scenarios
              ds   == IF sync
                      THEN [data_store EXCEPT ![current_scenario] = res.updated]
                      ELSE data_store
          IN  /\ scenarios' = scen
              /\ data_store' = RunScript(ds, scen, current_scenario, block_fridays)
              /\ history' = Append(history, Entry("MonthEdit", <<ym, edited>>, res.outcome))
    /\ UNCHANGED <<current_scenario, budget_days, block_fridays, drive_db,
                   drive_settings>>

\* the button "Applicera period", pressed in a rerun after the overlay ran
ApplyPeriod ==
    /\ Len(history) < MaxOps
    /\ \E range \in PeriodRanges, period_action \in PeriodActions :
          LET start_date == range[1]
              end_date   == range[2]
              ds == RunScript(data_store, scenarios, current_scenario, block_fridays)
          IN  IF start_date > end_date
              THEN /\ data_store' = ds
                   /\ scenarios' = scenarios
                   /\ history' = Append(history,
                         Entry("ApplyPeriod", <<start_date, end_date, period_action>>,
                               "error"))
              ELSE LET updated == ApplyPeriodFrame(ds[current_scenario], start_date,
                                                   end_date, period_action)
                   IN  /\ scenarios' = [scenarios EXCEPT
                                           ![current_scenario] = ToRecords(updated)]
                       /\ data_store' = [ds EXCEPT ![current_scenario] = updated]
                       /\ history' = Append(history,
                             Entry("ApplyPeriod", <<start_date, end_date, period_action>>,
                                   "ok"))
    /\ UNCHANGED <<current_scenario, budget_days, block_fridays, drive_db,
                   drive_settings>>

\* the button "Spara nu" (disabled without Drive): save_all_changes
SaveNow ==
    /\ Len(history) < MaxOps
    /\ drive_enabled
    /\ \E out \in SaveOutcomes :
          /\ drive_db' = SavedDb(scenarios, budget_days, out)
          /\ drive_settings' = SavedSettings(budget_days, out)
          /\ history' = Append(history,
                Entry("SaveNow", out, save_all_changes_status(out)))
    /\ data_store' = RunScript(data_store, scenarios, current_scenario, block_fridays)
    /\ UNCHANGED <<scenarios, current_scenario, budget_days, block_fridays>>

\* the button "Kopiera version"
CopyScenario ==
    /\ Len(history) < MaxOps
    /\ \E new_name \in NewNames, out \in SaveOutcomes :
          IF new_name \notin DOMAIN scenarios
          THEN LET scen == create_new_scenario(scenarios, current_scenario, new_name)
               IN  /\ scenarios' = scen
                   /\ current_scenario' = new_name
                   /\ drive_db' = SavedDb(scen, budget_days, out)
                   /\ drive_settings' = SavedSettings(budget_days, out)
                   /\ data_store' = RunScript(data_store, scen, new_name, block_fridays)
                   /\ history' = Append(history, Entry("CopyScenario", <<new_name, out>>, "ok"))
          ELSE /\ data_store' = RunScript(data_store, scenarios, current_scenario,
                                          block_fridays)
               /\ history' = Append(history,
                     Entry("CopyScenario", <<new_name, <<FALSE, FALSE>> >>, "exists"))
               /\ UNCHANGED <<scenarios, current_scenario, drive_db, drive_settings>>
    /\ UNCHANGED <<budget_days, block_fridays>>

\* SelectScenario that also saves
SelectScenario_Saving ==
    /\ Len(history) < MaxOps
    /\ \E selected_scenario \in DOMAIN scenarios \ {current_scenario} :
          /\ current_scenario' = selected_scenario
          /\ data_store' = RunScript(data_store, scenarios, selected_scenario, block_fridays)
          /\ history' = Append(history, Entry("SelectScenario", <<selected_scenario>>, "ok"))
          /\ drive_db' = SavedDb(scenarios, budget_days, <<TRUE, TRUE>>)
          /\ drive_settings' = SavedSettings(budget_days, <<TRUE, TRUE>>)
    /\ UNCHANGED <<scenarios, budget_days, block_fridays>>

\* the selectbox "Valj version"
SelectScenario ==
    /\ Len(history) < MaxOps
    /\ \E selected_scenario \in DOMAIN scenarios \ {current_scenario} :
          /\ current_scenario' = selected_scenario
          /\ data_store' = RunScript(data_store, scenarios, selected_scenario, block_fridays)
          /\ history' = Append(history, Entry("SelectScenario", <<selected_scenario>>, "ok"))
    /\ UNCHANGED <<scenarios, budget_days, block_fridays, drive_db, drive_settings>>

\* the number input "Semesterbudget (dagar)": on_change=_on_budget_change
BudgetChange ==
    /\ Len(history) < MaxOps
    /\ \E value \in BudgetValues \ {budget_days}, out \in SaveOutcomes :
          /\ budget_days' = value
          /\ drive_db' = SavedDb(scenarios, value, out)
          /\ drive_settings' = SavedSettings(value, out)
          /\ history' = Append(history, Entry("BudgetChange", <<value, out>>, "ok"))
    /\ data_store' = RunScript(data_store, scenarios, current_scenario, block_fridays)
    /\ UNCHANGED <<scenarios, current_scenario, block_fridays>>

Next ==
    \/ ToggleBlockFridays
    \/ MonthEdit
    \/ ApplyPeriod
    \/ SaveNow
    \/ CopyScenario
    \/ SelectScenario
    \/ BudgetChange

Spec == Init /\ [][Next]_vars

----------------------------------------------------------------------------
(* Sessions that start on what the Drive folder holds.  The initial state  *)
(* is the state after the first run of the script; history[1] records what *)
(* the run found.  A dict of the model keeps no key order, so any key may  *)
(* be list(keys())[0].  When "scenarios" holds a list, keys() raises       *)
(* AttributeError: st.session_state keeps the list and the budget, has no  *)
(* "current_scenario", and every later run of the script raises before it  *)
(* reaches a widget that changes the state.                                *)

SessionInit ==
    \E k \in DOMAIN DbFileChoices, l \in DOMAIN SettingsFileChoices,
       raises \in LoadOutcomes :
       LET db_files       == DbFileChoices[k]
           settings_files == SettingsFileChoices[l]
           loaded         == LoadSession(db_files, settings_files, raises)
           found          == [db_files |-> db_files, settings_files |-> settings_files,
                              raises |-> raises]
       IN  /\ drive_db = db_files
           /\ drive_settings = settings_files
           /\ budget_days = loaded.budget_days
           /\ block_fridays = TRUE
           /\ IF loaded.scenarios.type = "dict"
              THEN /\ scenarios = StoreOf(loaded.scenarios)
                   /\ \E first_key \in DOMAIN loaded.scenarios.val :
                         /\ current_scenario = first_key
                         /\ data_store = RunScript(<<>>, scenarios, first_key, TRUE)
                   /\ history = <<Entry("LoadSession", found, loaded.toast)>>
              ELSE /\ scenarios = loaded.scenarios.val
                   /\ current_scenario = Missing
                   /\ data_store = <<>>
                   /\ history = <<Entry("LoadSession", found, "AttributeError")>>

\* the script reached the sidebar
SidebarRendered == current_scenario # Missing

SessionNext ==
    \/ SidebarRendered /\ SaveNow
    \/ SidebarRendered /\ CopyScenario
    \/ SidebarRendered /\ SelectScenario
    \/ SidebarRendered /\ BudgetChange

SessionSpec == SessionInit /\ [][SessionNext]_vars

----------------------------------------------------------------------------
(* Sessions that start on a store of several scenarios, saved by an        *)
(* earlier session in which one was copied from the other and then edited. *)
(* Either of them may be the current one.                                  *)

PlanInit ==
    /\ SessionInit
    /\ SidebarRendered
    /\ Cardinality(DOMAIN scenarios) >= 2

PlanSpec == PlanInit /\ [][Next]_vars

----------------------------------------------------------------------------
(* Vocabulary of the properties *)

MarkFlags == {"Semester", "Halvdag", "ExtraLedig", "Sjuk"}

LastOp == history[Len(history)]

\* the interaction that a step performs
StepOp == history'[Len(history')]
Stepped == Len(history') = Len(history) + 1

\* a record of the scenario store lies in the month ym
InMonth(rec, ym) ==
    YearOf(ParseDate(rec.Datum)) = ym[1] /\ MonthOf(ParseDate(rec.Datum)) = ym[2]

\* the records of a scenario that lie in the month ym, in order
StoreSlice(records, ym) ==
    LET pos == Ascending({i \in DOMAIN records : InMonth(records[i], ym)})
    IN  [j \in DOMAIN pos |-> records[pos[j]]]

\* the editor state ticks exactly one checkbox, flag, of exactly one row, row
TicksOnly(edited, row, flag) ==
    /\ edited.kind = "dict"
    /\ Len(edited.added_rows) = 0
    /\ edited.deleted_rows = {}
    /\ DOMAIN edited.edited_rows = {row}
    /\ DOMAIN edited.edited_rows[row] = {flag}
    /\ flag \in MarkFlags
    /\ edited.edited_rows[row][flag] = TRUE

\* the dates of the rows the editor state hands to the write-back
BatchDates(month_df, edited) ==
    IF edited.kind = "frame" THEN {edited.frame[j].Datum : j \in DOMAIN edited.frame}
    ELSE LET e2 == EditedRows(month_df, edited.edited_rows) \o edited.added_rows
             e3 == DropRows(e2, edited.deleted_rows)
         IN  {e3[j].Datum : j \in DOMAIN e3}

FrameDates(frame) == {frame[j].Datum : j \in DOMAIN frame}

----------------------------------------------------------------------------
(* C1: in every scenario, no day record has both Semester (vacation) and   *)
(* Halvdag (half day) set, and a record with either of them set has        *)
(* neither ExtraLedig nor Sjuk set, after any month edits and period       *)
(* operations on a freshly generated store.                                *)

VacationExclusive(r) ==
    /\ ~(r.Semester /\ r.Halvdag)
    /\ (r.Semester \/ r.Halvdag) => (~r.ExtraLedig /\ ~r.Sjuk)

C1_VacationHalfDayExclusive ==
    /\ \A name \in DOMAIN scenarios : \A i \in DOMAIN scenarios[name] :
          VacationExclusive(scenarios[name][i])
    /\ \A name \in DOMAIN data_store : \A i \in DOMAIN data_store[name] :
          VacationExclusive(data_store[name][i])

\* a half day was ticked in the editor, then a period was marked: one record
\* carries Halvdag, another Semester
C1_Witness ==
    /\ Len(history) = 2
    /\ history[1].op = "MonthEdit" /\ history[1].outcome = "ok"
    /\ history[2].op = "ApplyPeriod" /\ history[2].outcome = "ok"
    /\ \E i, j \in DOMAIN scenarios[current_scenario] :
          /\ scenarios[current_scenario][i].Halvdag
          /\ scenarios[current_scenario][j].Semester

----------------------------------------------------------------------------
(* C2: in every reachable state every day record of every scenario has at  *)
(* most one of the four marks Semester, Halvdag, ExtraLedig, Sjuk set.     *)

C2_AtMostOneMark ==
    \A name \in DOMAIN scenarios : \A i \in DOMAIN scenarios[name] :
        Cardinality({f \in MarkFlags : scenarios[name][i][f]}) <= 1

----------------------------------------------------------------------------
(* C3: a month edit of (year, month) changes no field of any record whose  *)
(* date lies outside that month, and no record of another scenario.        *)

C3_MonthEditFrame ==
    [][(Stepped /\ StepOp.op = "MonthEdit") =>
          /\ DOMAIN scenarios' = DOMAIN scenarios
          /\ \A name \in DOMAIN scenarios : \A i \in DOMAIN scenarios[name] :
                (name # current_scenario \/ ~InMonth(scenarios[name][i], StepOp.args[1]))
                    => scenarios'[name][i] = scenarios[name][i]]_vars

----------------------------------------------------------------------------
(* C4: the Typ (baseType) of every record in the scenario store and in the *)
(* blob saved to Drive is the one get_initial_data generated for its date. *)

GeneratedTyp(rec) == InitialRecord(ParseDate(rec.Datum)).Typ

C4_StoredBaseTypeGenerated ==
    /\ \A name \in DOMAIN scenarios : \A i \in DOMAIN scenarios[name] :
          scenarios[name][i].Typ = GeneratedTyp(scenarios[name][i])
    /\ \A f \in DOMAIN drive_db :
          LET saved == StoreOf(json_loads(drive_db[f]).val.scenarios)
          IN  \A name \in DOMAIN saved : \A i \in DOMAIN saved[name] :
                 saved[name][i].Typ = GeneratedTyp(saved[name][i])

----------------------------------------------------------------------------
(* C5: after every read, a Friday of an even ISO week that was generated   *)
(* as a workday shows "Sparrad (Jobb)" if the checkbox of that read is on  *)
(* and "Arbetsdag" if it is off, whatever the earlier reads were.          *)

C5_OverlayFollowsFlag ==
    \A i \in DOMAIN df :
        (EvenFriday(df[i].Datum) /\ ~is_holiday(df[i].Datum)) =>
            df[i].Typ = IF block_fridays THEN "Sparrad (Jobb)" ELSE "Arbetsdag"

----------------------------------------------------------------------------
(* C6: a day generated as "Ledig (Helg/Rod)" never shows "Sparrad (Jobb)". *)

C6_OverlayOnlyWorkdays ==
    \A name \in DOMAIN data_store : \A i \in DOMAIN data_store[name] :
        is_holiday(data_store[name][i].Datum) =>
            data_store[name][i].Typ # "Sparrad (Jobb)"

----------------------------------------------------------------------------
(* C7: a month edit that ticks exactly one mark on a record that carries a *)
(* different mark leaves that record with the ticked mark set and the      *)
(* other three marks clear.                                                *)

C7_SetOneClearsOthers ==
    [][(Stepped /\ StepOp.op = "MonthEdit" /\ StepOp.outcome = "ok") =>
          \A flag \in MarkFlags : \A row \in 0..(WindowDays + 1) :
             TicksOnly(StepOp.args[2], row, flag) =>
                LET pre  == StoreSlice(scenarios[current_scenario], StepOp.args[1])[row + 1]
                    post == StoreSlice(scenarios'[current_scenario], StepOp.args[1])[row + 1]
                IN  (\E g \in MarkFlags \ {flag} : pre[g]) =>
                        (post[flag] /\ \A g \in MarkFlags \ {flag} : ~post[g])]_vars

----------------------------------------------------------------------------
(* C8: a month edit that ticks only Sjuk, or only ExtraLedig, on a record  *)
(* with Semester set and Halvdag clear leaves that record with Semester    *)
(* clear and the ticked mark set.                                          *)

C8_SickOrExtraClearsVacation ==
    [][(Stepped /\ StepOp.op = "MonthEdit" /\ StepOp.outcome = "ok") =>
          \A flag \in {"Sjuk", "ExtraLedig"} : \A row \in 0..(WindowDays + 1) :
             TicksOnly(StepOp.args[2], row, flag) =>
                LET pre  == StoreSlice(scenarios[current_scenario], StepOp.args[1])[row + 1]
                    post == StoreSlice(scenarios'[current_scenario], StepOp.args[1])[row + 1]
                IN  (pre.Semester /\ ~pre.Halvdag) => (~post.Semester /\ post[flag])]_vars

\* Semester was ticked on a row, then Sjuk on the same row: the row now has Sjuk
\* and no Semester
C8_Witness ==
    /\ Len(history) = 2
    /\ history[1].op = "MonthEdit" /\ history[1].outcome = "ok"
    /\ history[2].op = "MonthEdit" /\ history[2].outcome = "ok"
    /\ history[1].args[1] = history[2].args[1]
    /\ \E row \in 0..(WindowDays + 1) :
          /\ TicksOnly(history[1].args[2], row, "Semester")
          /\ TicksOnly(history[2].args[2], row, "Sjuk")
          /\ LET r == StoreSlice(scenarios[current_scenario], history[2].args[1])[row + 1]
             IN  r.Sjuk /\ ~r.Semester

----------------------------------------------------------------------------
(* C9: applying the same editor state to the same month twice in a row     *)
(* leaves the scenario store as it was after the first application.        *)

C9_MergeIdempotent ==
    [][(/\ Stepped
        /\ Len(history) >= 1
        /\ LastOp.op = "MonthEdit"
        /\ StepOp.op = "MonthEdit"
        /\ StepOp.args[1] = LastOp.args[1]
        /\ StepOp.args[2].kind = LastOp.args[2].kind
        /\ StepOp.args[2] = LastOp.args[2])
          => scenarios' = scenarios]_vars

----------------------------------------------------------------------------
(* C10: a month edit whose rows do not carry exactly the dates of the      *)
(* month's records raises, and leaves the scenario store unchanged.        *)

C10_MisalignedBatchRejected ==
    [][(/\ Stepped
        /\ StepOp.op = "MonthEdit"
        /\ StepOp.args[2].kind # "none"
        /\ BatchDates(MonthSlice(df, StepOp.args[1]), StepOp.args[2])
              # FrameDates(MonthSlice(df, StepOp.args[1])))
          => (StepOp.outcome \in {"ValueError", "KeyError"} /\ scenarios' = scenarios)]_vars

----------------------------------------------------------------------------
(* C11: in every reachable state every scenario holds exactly one record   *)
(* per date of the generated range, in ascending date order, each with the *)
(* date and the ISO week it was generated with: month edits, period        *)
(* operations, copies and selections add, remove, reorder or re-date none. *)

C11_OneRecordPerDate ==
    \A name \in DOMAIN scenarios :
        /\ Len(scenarios[name]) = Len(all_dates)
        /\ \A i \in DOMAIN all_dates :
              /\ scenarios[name][i].Datum = DateStr(all_dates[i])
              /\ scenarios[name][i].Vecka = isoweek(all_dates[i])

\* the editor handed back a row whose date was replaced, the merge went through,
\* and the scenario was then copied: both scenarios still hold the generated dates
C11_Witness ==
    /\ Len(history) = 2
    /\ history[1].op = "MonthEdit" /\ history[1].outcome = "ok"
    /\ history[1].args[2].kind = "dict"
    /\ DOMAIN history[1].args[2].edited_rows = {0}
    /\ DOMAIN history[1].args[2].edited_rows[0] = {"Datum"}
    /\ history[2].op = "CopyScenario" /\ history[2].outcome = "ok"
    /\ Cardinality(DOMAIN scenarios) = 2
    /\ \A name \in DOMAIN scenarios :
          \A i \in DOMAIN all_dates : scenarios[name][i].Datum = DateStr(all_dates[i])

----------------------------------------------------------------------------
(* C12: the budget statistics of the scenario shown count one day for each *)
(* record with Semester set and half a day for each record with Halvdag    *)
(* set whose effective kind is workday or restricted work, that is whose   *)
(* date was generated as a workday, and nothing for a mark on any other    *)
(* day; what remains is budget_days minus that count.                      *)

C12_BudgetCountsWorkdayMarks ==
    LET stat     == budget_statistics(df, budget_days)
        eligible == {i \in DOMAIN df : ~is_holiday(df[i].Datum)}
        consumed == 2 * Cardinality({i \in eligible : df[i].Semester})
                        + Cardinality({i \in eligible : df[i].Halvdag})
    IN  /\ stat.count = consumed
        /\ stat.rem = 2 * budget_days - consumed

----------------------------------------------------------------------------
(* C13: get_initial_data yields exactly one record for each date of the    *)
(* range, in order; the record's Typ is "Ledig (Helg/Rod)" if and only if  *)
(* the date is in the holiday table or is a Saturday or a Sunday, and      *)
(* "Arbetsdag" otherwise; Beskrivning is filled only on dates of the       *)
(* holiday table; the four marks are all false.  A first run keeps these   *)
(* records as the scenario "Utkast 1".                                     *)

C13_GenerateClassifies ==
    LET data == get_initial_data
    IN  /\ \A d \in WindowStart..WindowEnd :
              Cardinality({i \in DOMAIN data : ParseDate(data[i].Datum) = d}) = 1
        /\ \A i \in DOMAIN data :
              LET d == ParseDate(data[i].Datum)
              IN  /\ d \in WindowStart..WindowEnd
                  /\ i > 1 => ParseDate(data[i - 1].Datum) < d
                  /\ data[i].Vecka = isoweek(d)
                  /\ data[i].Typ \in {"Ledig (Helg/Rod)", "Arbetsdag"}
                  /\ data[i].Typ = "Ledig (Helg/Rod)"
                        <=> (d \in DOMAIN se_holidays \/ weekday(d) \in {5, 6})
                  /\ data[i].Beskrivning # "" => d \in DOMAIN se_holidays
                  /\ \A f \in MarkFlags : ~data[i][f]
        /\ history = <<>> => scenarios["Utkast 1"] = data

\* the first run: the scenario holds a labelled public holiday, a weekend day
\* without label and a workday
C13_Witness ==
    /\ history = <<>>
    /\ \E i, j, k \in DOMAIN scenarios["Utkast 1"] :
          LET r == scenarios["Utkast 1"]
          IN  /\ r[i].Typ = "Ledig (Helg/Rod)" /\ r[i].Beskrivning = "Forsta maj"
              /\ r[j].Typ = "Ledig (Helg/Rod)" /\ r[j].Beskrivning = ""
              /\ weekday(ParseDate(r[j].Datum)) = 5
              /\ r[k].Typ = "Arbetsdag"

----------------------------------------------------------------------------
(* C14: for every store the session reaches, loading the blob that         *)
(* save_to_drive writes for it yields the same scenario names, for each    *)
(* name the same records in the same order, and the same budget_days.      *)

Serialized == save_to_drive(<<>>, Payload(scenarios, budget_days), TRUE)
Deserialized == LoadSession(Serialized, <<>>, <<FALSE, FALSE>>)

C14_RoundTrip ==
    /\ Deserialized.scenarios.type = "dict"
    /\ DOMAIN Deserialized.scenarios.val = DOMAIN scenarios
    /\ \A name \in DOMAIN scenarios :
          /\ Deserialized.scenarios.val[name].type = "list"
          /\ Deserialized.scenarios.val[name].val = scenarios[name]
    /\ Deserialized.budget_days = budget_days

\* a store of two scenarios, one of them edited after the copy: what is loaded
\* back is that store
C14_Witness ==
    /\ Len(history) = 2
    /\ history[1].op = "CopyScenario" /\ history[1].outcome = "ok"
    /\ history[2].op = "MonthEdit" /\ history[2].outcome = "ok"
    /\ \E i \in DOMAIN scenarios["Plan B"] : scenarios["Plan B"][i].Semester
    /\ scenarios["Plan B"] # scenarios["Utkast 1"]
    /\ StoreOf(Deserialized.scenarios) = scenarios
    /\ Deserialized.budget_days = budget_days

----------------------------------------------------------------------------
(* Vocabulary of the properties of loading *)

\* what the first run of the session found and did
Loaded == history[1]

\* the first run downloaded and parsed a file named DB_FILENAME
ParsedDb ==
    /\ Loaded.op = "LoadSession"
    /\ Len(Loaded.args.db_files) = 1
    /\ ~Loaded.args.raises[1]

\* a JSON text of the older format: an object of arrays, and no settings
LegacyFlat(j) == j.json = "object" /\ \A k \in DOMAIN j.val : j.val[k].json = "array"

\* some record of an array lacks "Datum"
UndatedIn(j) == j.json = "array" /\ \E i \in DOMAIN j.val : "Datum" \notin DOMAIN j.val[i]

\* a JSON object one of whose day records lacks "Datum"
LacksDate(j) ==
    /\ j.json = "object"
    /\ \E k \in DOMAIN j.val :
          \/ UndatedIn(j.val[k])
          \/ /\ k = "scenarios"
             /\ j.val[k].json = "object"
             /\ \E name \in DOMAIN j.val[k].val : UndatedIn(j.val[k].val[name])

\* the session has just started, on a freshly generated "Utkast 1"
FreshDraft ==
    /\ Len(history) = 1
    /\ current_scenario = "Utkast 1"
    /\ DOMAIN scenarios = {"Utkast 1"}
    /\ Len(scenarios["Utkast 1"]) = Len(get_initial_data)
    /\ scenarios["Utkast 1"] = get_initial_data

----------------------------------------------------------------------------
(* C15: every blob of the older format, a dict from scenario names to      *)
(* record lists without settings, is deserialized without failure to       *)
(* scenarios equal to the whole blob and budget_days 108, whatever the     *)
(* scenario names are, "scenarios" among them.                             *)

C15_LegacyBlobMigrates ==
    (ParsedDb /\ LegacyFlat(Loaded.args.db_files[1])) =>
        LET blob == json_loads(Loaded.args.db_files[1])
            ext  == extract_drive_payload(blob)
        IN  /\ ext.scenarios.type = "dict"
            /\ DOMAIN ext.scenarios.val = DOMAIN blob.val
            /\ ext.scenarios = blob
            /\ ext.budget_days = TOTAL_BUDGET

\* the same for the blobs of the older format without a scenario of that name

C15_LegacyBlobMigratesUnlessNamedScenarios ==
    (/\ ParsedDb
     /\ LegacyFlat(Loaded.args.db_files[1])
     /\ "scenarios" \notin DOMAIN Loaded.args.db_files[1].val) =>
        LET blob == json_loads(Loaded.args.db_files[1])
            ext  == extract_drive_payload(blob)
        IN  /\ ext.scenarios.type = "dict"
            /\ DOMAIN ext.scenarios.val = DOMAIN blob.val
            /\ ext.scenarios = blob
            /\ ext.budget_days = TOTAL_BUDGET

----------------------------------------------------------------------------
(* C16: when the file loaded is no JSON object, or one of its day records  *)
(* lacks "Datum", loading fails with SchemaError: no store is made of the  *)
(* blob, and the session does not start on a default store instead.        *)

C16_MalformedBlobRejected ==
    (/\ ParsedDb
     /\ \/ Loaded.args.db_files[1].json # "object"
        \/ LacksDate(Loaded.args.db_files[1])) =>
        /\ Loaded.outcome = "SchemaError"
        /\ ~FreshDraft

----------------------------------------------------------------------------
(* C17: a session starts on a freshly generated default store when no file *)
(* named DB_FILENAME exists; when the file exists and loading it raises,   *)
(* the session does not start on a default store as if on a first run.     *)

C17_FailedLoadIsNoFirstRun ==
    (Loaded.op = "LoadSession" /\ Len(history) = 1) =>
        /\ Len(Loaded.args.db_files) = 0 => FreshDraft
        /\ (Len(Loaded.args.db_files) = 1 /\ Loaded.args.raises[1]) =>
              /\ ~FreshDraft
              /\ Loaded.outcome # "Ingen data pa Drive, skapade nytt utkast."

----------------------------------------------------------------------------
(* C18: a save that fails leaves scenarios, budget_days and                *)
(* current_scenario as they were and shows something other than the toast  *)
(* of a save that succeeded; a save that writes semester_databas.json      *)
(* writes the store and the budget as they are in memory at that moment,   *)
(* also when an earlier save had failed.                                   *)

C18_FailedSaveKeepsStore ==
    [][(Stepped /\ StepOp.op = "SaveNow") =>
          /\ StepOp.args # <<TRUE, TRUE>> =>
                /\ scenarios' = scenarios
                /\ budget_days' = budget_days
                /\ current_scenario' = current_scenario
                /\ StepOp.outcome # save_all_changes_status(<<TRUE, TRUE>>)
          /\ StepOp.args[1] =>
                drive_db' = <<json_dumps(Payload(scenarios', budget_days'))>>]_vars

\* the first save failed on both files, the second one succeeded: Drive holds
\* the store as it is in memory
C18_Witness ==
    /\ Len(history) = 2
    /\ history[1].op = "SaveNow" /\ history[1].args = <<FALSE, FALSE>>
    /\ history[1].outcome = "st.error; st.error"
    /\ history[2].op = "SaveNow" /\ history[2].args = <<TRUE, TRUE>>
    /\ drive_db = <<json_dumps(Payload(scenarios, budget_days))>>
    /\ drive_settings = <<json_dumps(SettingsPayload(budget_days))>>

----------------------------------------------------------------------------
(* C19: the files on Drive change only by the save command: month edits,   *)
(* period operations, copying a scenario, selecting a scenario and         *)
(* changing the budget write nothing to Drive.                             *)

C19_DriveChangesOnlyOnSave ==
    [][(drive_db' # drive_db \/ drive_settings' # drive_settings) =>
          (Stepped /\ StepOp.op = "SaveNow")]_vars

\* C19 as amended: the files on Drive change only by the save command, by a
\* copy of a scenario and by a change of the budget, each of which calls
\* save_all_changes; month edits, period operations, selections and the
\* checkbox write nothing to Drive.

C19_DriveChangesOnlyOnSaveCopyBudget ==
    [][(drive_db' # drive_db \/ drive_settings' # drive_settings) =>
          /\ Stepped
          /\ StepOp.op \in {"SaveNow", "CopyScenario", "BudgetChange"}
          /\ StepOp.outcome # "exists"]_vars

\* a save wrote the store, then a month edit changed it: Drive still holds the
\* store as it was saved
C19_Witness ==
    /\ Len(history) = 2
    /\ history[1].op = "SaveNow" /\ history[1].args = <<TRUE, TRUE>>
    /\ history[2].op = "MonthEdit" /\ history[2].outcome = "ok"
    /\ drive_db = <<json_dumps(Payload("Utkast 1" :> get_initial_data, TOTAL_BUDGET))>>
    /\ scenarios["Utkast 1"] # get_initial_data

----------------------------------------------------------------------------
(* C20: in every state of a session the store holds at least one scenario  *)
(* and current_scenario names one of them, whatever the first run found on *)
(* Drive and after any copies and selections.                              *)

C20_CurrentScenarioExists ==
    /\ current_scenario # Missing
    /\ DOMAIN scenarios # {}
    /\ current_scenario \in DOMAIN scenarios

----------------------------------------------------------------------------
(* C21: a month edit or a period operation made while scenario A is the    *)
(* current one changes the records of A only: the set of scenarios stays,  *)
(* and the records and the working frame of every other scenario, the one  *)
(* A was copied from and those copied from A among them, stay as they are. *)

C21_ScenariosIndependent ==
    [][(Stepped /\ StepOp.op \in {"MonthEdit", "ApplyPeriod"}) =>
          /\ DOMAIN scenarios' = DOMAIN scenarios
          /\ current_scenario' = current_scenario
          /\ \A name \in DOMAIN scenarios \ {current_scenario} :
                scenarios'[name] = scenarios[name]
          /\ \A name \in DOMAIN data_store \ {current_scenario} :
                /\ name \in DOMAIN data_store'
                /\ data_store'[name] = data_store[name]]_vars

\* the session loaded "Utkast 1" and its copy "Plan B"; a month edit or a
\* period operation then changed "Utkast 1", the current one, and "Plan B"
\* still holds what was loaded
C21_Witness ==
    /\ Len(history) = 2
    /\ history[1].op = "LoadSession"
    /\ history[2].op \in {"MonthEdit", "ApplyPeriod"} /\ history[2].outcome = "ok"
    /\ current_scenario = "Utkast 1"
    /\ scenarios["Utkast 1"] # get_initial_data
    /\ scenarios["Plan B"] = MarkedData
    /\ scenarios["Utkast 1"] # scenarios["Plan B"]

----------------------------------------------------------------------------
(* C22: copying under a name that is not empty and not yet a key adds one  *)
(* scenario of that name whose records are those of the current scenario   *)
(* at that moment, record for record in the same order, makes it the       *)
(* current scenario and leaves every scenario there was as it is; copying  *)
(* under a name that is a key already is refused and leaves the scenarios  *)
(* and current_scenario as they are.                                       *)

C22_CopyAddsEqualScenario ==
    [][(Stepped /\ StepOp.op = "CopyScenario" /\ StepOp.args[1] # "") =>
          LET new_name == StepOp.args[1]
          IN  IF new_name \notin DOMAIN scenarios
              THEN /\ DOMAIN scenarios' = DOMAIN scenarios \cup {new_name}
                   /\ Len(scenarios'[new_name]) = Len(scenarios[current_scenario])
                   /\ \A i \in DOMAIN scenarios[current_scenario] :
                         scenarios'[new_name][i] = scenarios[current_scenario][i]
                   /\ current_scenario' = new_name
                   /\ \A name \in DOMAIN scenarios : scenarios'[name] = scenarios[name]
              ELSE /\ StepOp.outcome = "exists"
                   /\ scenarios' = scenarios
                   /\ current_scenario' = current_scenario]_vars

\* a day of vacation was ticked in "Utkast 1", which was then copied as "Plan B":
\* "Plan B" is the current scenario and holds the same records, the tick included
C22_Witness ==
    /\ Len(history) = 2
    /\ history[1].op = "MonthEdit" /\ history[1].outcome = "ok"
    /\ history[2].op = "CopyScenario" /\ history[2].outcome = "ok"
    /\ history[2].args[1] = "Plan B"
    /\ current_scenario = "Plan B"
    /\ DOMAIN scenarios = {"Utkast 1", "Plan B"}
    /\ scenarios["Plan B"] = scenarios["Utkast 1"]
    /\ scenarios["Plan B"] # get_initial_data
    /\ \E i \in DOMAIN scenarios["Plan B"] : scenarios["Plan B"][i].Semester

----------------------------------------------------------------------------
(* C23: whenever a call of save_all_changes wrote semester_databas.json,   *)
(* a session that starts next and loads both files without error has the  *)
(* budget_days that was in memory at that save, also when the write of     *)
(* semester_settings.json failed in that save or in an earlier one.        *)

\* the interaction called save_all_changes; what its two save_to_drive returned
CalledSave(e) ==
    e.op \in {"SaveNow", "BudgetChange"} \/ (e.op = "CopyScenario" /\ e.outcome = "ok")
SaveResult(e) == IF e.op = "SaveNow" THEN e.args ELSE e.args[2]
MainWritten(e) == CalledSave(e) /\ SaveResult(e)[1]

C23_SavedBudgetRestored ==
    [][(Stepped /\ MainWritten(StepOp)) =>
          LoadSession(drive_db', drive_settings', <<FALSE, FALSE>>).budget_days
              = budget_days']_vars

\* the same for the saves that also wrote semester_settings.json, or that
\* leave no such file on Drive
C23_SavedBudgetRestoredUnlessStaleSettings ==
    [][(/\ Stepped
        /\ MainWritten(StepOp)
        /\ (SaveResult(StepOp)[2] \/ drive_settings' = <<>>)) =>
          LoadSession(drive_db', drive_settings', <<FALSE, FALSE>>).budget_days
              = budget_days']_vars

====
